---- MODULE Spec2Model ----
(***************************************************************************)
(* Model of src/main.py, a Streamlit medical-intake dashboard.             *)
(*                                                                         *)
(* The program's state is st.session_state, a per-session dictionary that  *)
(* survives from one script run to the next.  Every UI event (a button     *)
(* click) makes Streamlit run main() once, top to bottom: the run calls    *)
(* init_session_state and then the handler guarded by the clicked button.  *)
(* Script runs of one session are serial: Streamlit starts the next run    *)
(* only when the running one has ended.  The only other thread is the      *)
(* WebRTC capture thread, which calls audio_callback once per audio frame  *)
(* while the stream is playing.                                            *)
(*                                                                         *)
(* Conventions                                                             *)
(*   - a Python dict is a function whose DOMAIN is the set of its keys;    *)
(*     the empty dict is the function with the empty domain;               *)
(*   - a Python list is a sequence;                                        *)
(*   - a Python str the code computes with is a sequence of characters (a  *)
(*     fixed literal may be one element of it); an optional str is PyNone  *)
(*     or PyStr(s);                                                        *)
(*   - a probability p is held as the integer 100*p (0.65 is 65);          *)
(*   - the 'time' field of a conversation message (datetime.now()) is      *)
(*     never read again by the program and is left out, as is the          *)
(*     rendering code, which only reads session_state;                     *)
(*   - the Chinese string literals of the source are written in pinyin:    *)
(*     a character of a typed text is one pinyin syllable ("fa", "re"      *)
(*     are the two characters of the word for fever, line 248).            *)
(***************************************************************************)
EXTENDS Integers, Sequences, FiniteSets, TLC

VARIABLES
    session_state,  \* st.session_state: key -> value, for the keys present
    playing,        \* ctx.state.playing of the webrtc_streamer component
    frames,         \* number of audio frames delivered to audio_callback so far
    pc,             \* position of the script thread: "idle" between runs,
                    \* "transcribe" after line 48 of the stop-recording handler
    audio_array,    \* the handler's local audio_array (line 48)
    lastEvent,      \* observation: the last handler the script thread ran and how it ended
    runs,           \* number of script runs so far
    session_start,  \* observation: the number of frames delivered before the
                    \* current capture session began
    call            \* the backend call the script thread is suspended in (line 213),
                    \* where the model follows a turn step by step

vars ==
    <<session_state, playing, frames, pc, audio_array, lastEvent, runs,
      session_start, call>>

(***************************************************************************)
(* Bounds of the model.                                                    *)
(***************************************************************************)
MaxRuns == 4       \* script runs (UI events handled) in one session
MaxFrames == 2     \* audio frames delivered in one session

(***************************************************************************)
(* Python values.                                                          *)
(***************************************************************************)
EmptyDict == [k \in {} |-> 0]

PyNone == [none |-> TRUE]

PyStr(s) == [str |-> s]

\* dict.get(key, default)
DictGet(d, key, default) == IF key \in DOMAIN d THEN d[key] ELSE default

\* bool(x) of an optional str: None and '' are falsy
Truthy(x) == x # PyNone /\ x # PyStr(<<>>)

Whitespace == {" ", "\t", "\n"}

RECURSIVE lstrip(_)
lstrip(s) ==
    IF s # <<>> /\ Head(s) \in Whitespace THEN lstrip(Tail(s)) ELSE s

RECURSIVE rstrip(_)
rstrip(s) ==
    IF s # <<>> /\ s[Len(s)] \in Whitespace
    THEN rstrip(SubSeq(s, 1, Len(s) - 1))
    ELSE s

\* str.strip()
strip(s) == rstrip(lstrip(s))

\* `sub in s` for two str
Contains(s, sub) ==
    \E i \in 1..(Len(s) - Len(sub) + 1) : SubSeq(s, i, i + Len(sub) - 1) = sub

(***************************************************************************)
(* Inputs the user and the collaborators can supply.                       *)
(***************************************************************************)
\* what the user can type in the symptom box or the transcriber can return
Texts ==
    { <<>>,
      <<" ", " ">>,
      <<"ke", "sou">>,
      <<" ", "fa", "re">> }

\* names typed in the medicine-name box (line 102); st.text_input returns '' when left empty
MedNames == {"", "aspirin"}

\* values of st.time_input, a datetime.time, as [hour, minute]
MedTimes == {[hour |-> 8, minute |-> 5]}

\* values of the profile widgets: st.text_input, st.number_input(min_value=1,
\* max_value=100), st.selectbox of two options (line 132)
ProfileNames == {"Zhang San"}

MinAge == 1

MaxAge == 100

ProfileAges == {MinAge, MaxAge}

GenderOptions == {"nan", "nv"}

(***************************************************************************)
(* init_session_state (lines 11-27).                                       *)
(***************************************************************************)
session_defaults ==
    [conversation |-> <<>>,
     user_profile |-> [name |-> "", age |-> 30, gender |-> "male",
                       medical_history |-> <<>>],
     diagnosis_data |-> EmptyDict,
     medications |-> <<>>,
     audio_buffer |-> <<>>]

\* lines 25-27, mutated: the `if key not in st.session_state` test is missing
init_session_state_overwriting(ss) ==
    [key \in DOMAIN ss \cup DOMAIN session_defaults |->
        IF key \in DOMAIN session_defaults THEN session_defaults[key] ELSE ss[key]]

\* lines 25-27, mutated: the capture buffer is started afresh on every run
init_session_state_fresh_buffer(ss) ==
    [key \in DOMAIN ss \cup DOMAIN session_defaults |->
        IF key \in DOMAIN ss /\ key # "audio_buffer"
        THEN ss[key]
        ELSE session_defaults[key]]

\* for key, val in session_defaults.items(): if key not in st.session_state: ...
init_session_state(ss) ==
    [key \in DOMAIN ss \cup DOMAIN session_defaults |->
        IF key \in DOMAIN ss THEN ss[key] ELSE session_defaults[key]]

\* What a script run reads from the session: init_session_state has run
\* before any read, and st.session_state.get('warning') (line 195) is None
\* while the key is absent.
Conversation(ss) == init_session_state(ss).conversation

DiagnosisData(ss) == init_session_state(ss).diagnosis_data

Medications(ss) == init_session_state(ss).medications

AudioBuffer(ss) == init_session_state(ss).audio_buffer

Warning(ss) == DictGet(ss, "warning", PyNone)

(***************************************************************************)
(* get_ai_response (lines 228-249), the mock backend of the source, and    *)
(* the outcomes of the backend call it stands for.                         *)
(***************************************************************************)
MockData ==
    [symptom_network |->
        [nodes |-> << [id |-> "toutong", group |-> 1], [id |-> "fare", group |-> 2] >>,
         links |-> << [source |-> "toutong", target |-> "fare", value |-> 80] >>],
     probabilities |-> ("ganmao" :> 65) @@ ("liugan" :> 25) @@ ("piantoutong" :> 10)]

\* the f-string of line 231: a fixed prefix, the text, a fixed suffix
MockAnswer(text) == <<"shoudao zhengzhuang:">> \o text \o <<". qing buchong shuoming">>

get_ai_response(text) ==
    [answer |-> MockAnswer(text),
     data |-> MockData,
     warning |-> IF Contains(text, <<"fa", "re">>)
                 THEN PyStr(<<"chixu gaore xu liji jiuyi">>)
                 ELSE PyNone]

\* a backend call either returns a response dict or raises
Returned(response) == [raised |-> FALSE, response |-> response]

Raised == [raised |-> TRUE, response |-> EmptyDict]

\* The backend the mock is to be replaced by: ask(text) returns
\* {answer, data?: {symptom_network?, probabilities?}, warning?} or fails.
BackendOutcomes(text) ==
    { Returned(get_ai_response(text)),
      Returned([answer |-> MockAnswer(text)]),
      Returned([answer |-> MockAnswer(text),
                data |-> [probabilities |-> ("ganmao" :> 150) @@ ("liugan" :> -20)]]),
      Raised }

(***************************************************************************)
(* process_user_input (lines 203-224).  ss is the session state the call   *)
(* starts from, outcome what get_ai_response does at line 213.  The result *)
(* is the session state the call leaves and whether it raised.             *)
(***************************************************************************)
UserMessage(text) == [type |-> "user", content |-> text]

SystemMessage(content) == [type |-> "system", content |-> content]

\* line 204, mutated: `if text:`, the test without the strip
has_content_unstripped(text) == text # <<>>

\* line 204: `if text.strip():`
has_content(text) == strip(text) # <<>>

\* lines 206-210, mutated: a new turn also drops the previous diagnosis
record_user_input_resetting(ss, text) ==
    [ss EXCEPT !.conversation = Append(@, UserMessage(text)),
               !.diagnosis_data = EmptyDict]

\* lines 206-210
record_user_input(ss, text) ==
    [ss EXCEPT !.conversation = Append(@, UserMessage(text))]

\* lines 216-220, mutated: the answer is not logged
record_system_response_skipped(ss, response) == ss

\* lines 216-220
record_system_response(ss, response) ==
    [ss EXCEPT !.conversation = Append(@, SystemMessage(response.answer))]

\* lines 223-224, mutated: diagnosis_data.update(response.get('data', {}))
update_diagnosis_merging(ss, response) ==
    [key \in DOMAIN ss \cup {"warning"} |->
        CASE key = "diagnosis_data" ->
                LET data == DictGet(response, "data", EmptyDict)
                IN  [k \in DOMAIN ss.diagnosis_data \cup DOMAIN data |->
                        IF k \in DOMAIN data THEN data[k] ELSE ss.diagnosis_data[k]]
          [] key = "warning" -> DictGet(response, "warning", PyNone)
          [] OTHER -> ss[key]]

\* line 224, mutated: a warning is only ever raised, `if response.get('warning'):`
update_diagnosis_sticky(ss, response) ==
    [key \in DOMAIN ss \cup {"warning"} |->
        CASE key = "diagnosis_data" -> DictGet(response, "data", EmptyDict)
          [] key = "warning" ->
                IF Truthy(DictGet(response, "warning", PyNone))
                THEN response.warning
                ELSE DictGet(ss, "warning", PyNone)
          [] OTHER -> ss[key]]

\* lines 223-224: both keys are assigned; 'warning' is created if absent
update_diagnosis(ss, response) ==
    [key \in DOMAIN ss \cup {"warning"} |->
        CASE key = "diagnosis_data" -> DictGet(response, "data", EmptyDict)
          [] key = "warning" -> DictGet(response, "warning", PyNone)
          [] OTHER -> ss[key]]

process_user_input(ss, text, outcome) ==
    IF ~has_content(text)
    THEN [ss |-> ss, raised |-> FALSE]
    ELSE LET logged == record_user_input(ss, text)
         IN  IF outcome.raised
             THEN [ss |-> logged, raised |-> TRUE]
             ELSE [ss |-> update_diagnosis(
                              record_system_response(logged, outcome.response),
                              outcome.response),
                   raised |-> FALSE]

(***************************************************************************)
(* medication_reminder (lines 98-122): the two button handlers.            *)
(***************************************************************************)
Digits == <<"0", "1", "2", "3", "4", "5", "6", "7", "8", "9">>

Digit(n) == Digits[n + 1]

\* datetime.time.strftime("%H:%M"): two digits, a colon, two digits
strftime_HM(t) ==
    << Digit(t.hour \div 10), Digit(t.hour % 10), ":",
       Digit(t.minute \div 10), Digit(t.minute % 10) >>

\* lines 106-111, mutated: the new reminder is put first, insert(0, ...)
medication_reminder_add_first(medications, new_med, med_time) ==
    <<[name |-> new_med, time |-> strftime_HM(med_time), status |-> "pending"]>>
        \o medications

\* lines 106-111: the add button appends whatever the two widgets hold
medication_reminder_add(medications, new_med, med_time) ==
    Append(medications,
           [name |-> new_med, time |-> strftime_HM(med_time), status |-> "pending"])

\* lines 118-119, mutated: the button toggles the status
medication_reminder_done_toggle(medications, idx) ==
    [medications EXCEPT ![idx].status = IF @ = "done" THEN "pending" ELSE "done"]

\* lines 118-119: the done button of row idx (rows are numbered from 1 here,
\* from 0 in the source)
medication_reminder_done(medications, idx) ==
    [medications EXCEPT ![idx].status = "done"]

(***************************************************************************)
(* user_profile_section (lines 126-141): the update button.                *)
(***************************************************************************)
user_profile_update(profile, name, age, gender) ==
    [profile EXCEPT !.name = name, !.age = age, !.gender = gender]

(***************************************************************************)
(* Voice capture (lines 31-52).                                            *)
(***************************************************************************)
\* frame.to_ndarray() of the n-th frame delivered: its samples
to_ndarray(n) == <<2 * n - 1, 2 * n>>

\* audio_callback (lines 31-34)
audio_callback(ss, n) == [ss EXCEPT !.audio_buffer = Append(@, to_ndarray(n))]

RECURSIVE flatten(_)
flatten(arrays) ==
    IF arrays = <<>> THEN <<>> ELSE Head(arrays) \o flatten(Tail(arrays))

\* np.concatenate, mutated: an empty list gives an empty array
concatenate_lenient(arrays) == Returned(flatten(arrays))

\* np.concatenate(arrays): one array of all the samples in order; on an empty
\* list it raises ValueError ("need at least one array to concatenate")
concatenate(arrays) ==
    IF arrays = <<>> THEN Raised ELSE Returned(flatten(arrays))

\* speech_to_text(audio_array), which the source calls and does not define:
\* transcribe(samples) returns a str, returns nothing, or fails
TranscribeOutcomes(samples) ==
    { Returned(PyStr(t)) : t \in Texts } \cup { Returned(PyNone), Raised }

\* the text line 51 passes on, if line 50 lets it through
TranscribedText(transcribed) ==
    IF ~transcribed.raised /\ Truthy(transcribed.response)
    THEN transcribed.response.str
    ELSE <<>>

\* lines 49-52, after line 48 has built audio_array
voice_input_drain(ss, transcribed, outcome) ==
    IF transcribed.raised
    THEN [ss |-> ss, raised |-> TRUE, path |-> "transcribe_raised"]
    ELSE IF ~Truthy(transcribed.response)
    THEN [ss |-> [ss EXCEPT !.audio_buffer = <<>>], raised |-> FALSE,
          path |-> "no_text"]
    ELSE LET text == TranscribedText(transcribed)
             turn == process_user_input(ss, text, outcome)
         IN  IF turn.raised
             THEN [ss |-> turn.ss, raised |-> TRUE, path |-> "backend_raised"]
             ELSE [ss |-> [turn.ss EXCEPT !.audio_buffer = <<>>], raised |-> FALSE,
                   path |-> IF strip(text) = <<>> THEN "empty_input" ELSE "answered"]

(***************************************************************************)
(* The state machine.  A script run is main() (lines 253-264): it calls    *)
(* init_session_state and then the handler of the button that was clicked. *)
(***************************************************************************)
Event(op, outcome) == [op |-> op, outcome |-> outcome]

\* no backend call is in progress
NoCall == [text |-> <<>>, origin |-> "none"]

\* the session before the first script run: st.session_state holds no key
Init ==
    /\ session_state = EmptyDict
    /\ playing = FALSE
    /\ frames = 0
    /\ pc = "idle"
    /\ audio_array = <<>>
    /\ lastEvent = Event("none", "ok")
    /\ runs = 0
    /\ session_start = 0
    /\ call = NoCall

\* mutated: a script run starts while the previous one is still running
StartRun_reentrant ==
    /\ runs < MaxRuns
    /\ runs' = runs + 1

\* main() starts: one more script run, once the previous one has ended
StartRun ==
    /\ pc = "idle"
    /\ runs < MaxRuns
    /\ runs' = runs + 1

\* a script run in which no button was clicked (page load, a widget edit)
Run ==
    /\ StartRun
    /\ session_state' = init_session_state(session_state)
    /\ lastEvent' = Event("run", "ok")
    /\ UNCHANGED <<playing, frames, pc, audio_array, session_start, call>>

\* lines 135-141
UpdateProfile(name, age, gender) ==
    /\ StartRun
    /\ LET ss == init_session_state(session_state)
       IN  session_state' =
               [ss EXCEPT !.user_profile = user_profile_update(@, name, age, gender)]
    /\ lastEvent' = Event("update_profile", "ok")
    /\ UNCHANGED <<playing, frames, pc, audio_array, session_start, call>>

\* lines 106-111
AddReminder(new_med, med_time) ==
    /\ StartRun
    /\ LET ss == init_session_state(session_state)
       IN  session_state' =
               [ss EXCEPT !.medications = medication_reminder_add(@, new_med, med_time)]
    /\ lastEvent' = Event("add_reminder", "ok")
    /\ UNCHANGED <<playing, frames, pc, audio_array, session_start, call>>

\* lines 114-119: row idx has a button only if the row exists
MarkDone(idx) ==
    /\ StartRun
    /\ LET ss == init_session_state(session_state)
       IN  /\ idx \in DOMAIN ss.medications
           /\ session_state' =
                  [ss EXCEPT !.medications = medication_reminder_done(@, idx)]
           /\ lastEvent' =
                  Event("mark_done", IF ss.medications[idx].status = "done"
                                     THEN "done_again" ELSE "done")
    /\ UNCHANGED <<playing, frames, pc, audio_array, session_start, call>>

\* lines 189-191: the send button.  Line 191 writes only the widget key
\* user_input, which is no part of the session data modelled here.
Send(text, outcome) ==
    /\ StartRun
    /\ LET ss == init_session_state(session_state)
           turn == process_user_input(ss, text, outcome)
       IN  /\ session_state' = turn.ss
           /\ lastEvent' =
                  Event("send", IF turn.raised THEN "backend_raised"
                                ELSE IF strip(text) = <<>> THEN "empty_input"
                                ELSE "answered")
    /\ UNCHANGED <<playing, frames, pc, audio_array, session_start, call>>

\* the START and STOP controls of webrtc_streamer (lines 40-45): the
\* component exists once a script run has rendered it, and a change of its
\* state makes the script run again.  A capture session runs from START,
\* or from the end of the previous stop-recording handler, to the next
\* click on stop-recording.
StartStream ==
    /\ StartRun
    /\ session_state # EmptyDict
    /\ ~playing
    /\ playing' = TRUE
    /\ session_state' = init_session_state(session_state)
    /\ lastEvent' = Event("start_stream", "ok")
    /\ session_start' = frames
    /\ UNCHANGED <<frames, pc, audio_array, call>>

StopStream ==
    /\ StartRun
    /\ playing
    /\ playing' = FALSE
    /\ session_state' = init_session_state(session_state)
    /\ lastEvent' = Event("stop_stream", "ok")
    /\ UNCHANGED <<frames, pc, audio_array, session_start, call>>

\* the capture thread delivers a frame to audio_callback (lines 31-34); it
\* runs whatever the script thread is doing
AudioCallback ==
    /\ playing
    /\ frames < MaxFrames
    /\ frames' = frames + 1
    /\ session_state' = audio_callback(session_state, frames + 1)
    /\ UNCHANGED <<playing, pc, audio_array, lastEvent, runs, session_start, call>>

\* lines 47-48: the stop-recording button, up to np.concatenate
StopRecordingConcatenate ==
    /\ StartRun
    /\ playing
    /\ LET ss == init_session_state(session_state)
           joined == concatenate(ss.audio_buffer)
       IN  /\ session_state' = ss
           /\ IF joined.raised
              THEN /\ lastEvent' = Event("stop_recording", "concatenate_raised")
                   /\ session_start' = frames
                   /\ UNCHANGED <<pc, audio_array>>
              ELSE /\ audio_array' = joined.response
                   /\ pc' = "transcribe"
                   /\ UNCHANGED <<lastEvent, session_start>>
    /\ UNCHANGED <<playing, frames, call>>

\* lines 49-52: the rest of the stop-recording handler
StopRecordingDrain(transcribed, outcome) ==
    /\ pc = "transcribe"
    /\ LET drain == voice_input_drain(session_state, transcribed, outcome)
       IN  /\ session_state' = drain.ss
           /\ lastEvent' = Event("stop_recording", drain.path)
    /\ pc' = "idle"
    /\ audio_array' = <<>>
    /\ session_start' = frames
    /\ UNCHANGED <<playing, frames, runs, call>>

\* line 49 and line 213 end in one of the ways they can
StopRecordingFinish ==
    \E transcribed \in TranscribeOutcomes(audio_array) :
        \E outcome \in BackendOutcomes(TranscribedText(transcribed)) :
            StopRecordingDrain(transcribed, outcome)

Next ==
    \/ Run
    \/ \E name \in ProfileNames, age \in ProfileAges, gender \in GenderOptions :
          UpdateProfile(name, age, gender)
    \/ \E new_med \in MedNames, med_time \in MedTimes : AddReminder(new_med, med_time)
    \/ \E idx \in 1..MaxRuns : MarkDone(idx)
    \/ \E text \in Texts : \E outcome \in BackendOutcomes(text) : Send(text, outcome)
    \/ StartStream
    \/ StopStream
    \/ AudioCallback
    \/ StopRecordingConcatenate
    \/ StopRecordingFinish

Spec == Init /\ [][Next]_vars

(***************************************************************************)
(* The same program with a turn followed step by step: the script thread   *)
(* is suspended in the backend call of line 213 (pc = "backend") between   *)
(* the write of lines 206-210 and the writes of lines 216-224.             *)
(***************************************************************************)
\* lines 189-190 and 203-213: the send button, up to the backend call
SendCall(text) ==
    /\ StartRun
    /\ LET ss == init_session_state(session_state)
       IN  IF has_content(text)
           THEN /\ session_state' = record_user_input(ss, text)
                /\ pc' = "backend"
                /\ call' = [text |-> text, origin |-> "send"]
                /\ UNCHANGED lastEvent
           ELSE /\ session_state' = ss
                /\ lastEvent' = Event("send", "empty_input")
                /\ UNCHANGED <<pc, call>>
    /\ UNCHANGED <<playing, frames, audio_array, session_start>>

\* lines 49-51 and 203-213: the stop-recording handler after line 48, up to
\* the backend call if there is a turn, to its end at line 52 if not
VoiceCall(transcribed) ==
    /\ pc = "transcribe"
    /\ audio_array' = <<>>
    /\ LET text == TranscribedText(transcribed)
       IN  IF transcribed.raised
           THEN /\ lastEvent' = Event("stop_recording", "transcribe_raised")
                /\ pc' = "idle"
                /\ session_start' = frames
                /\ UNCHANGED <<session_state, call>>
           ELSE IF Truthy(transcribed.response) /\ has_content(text)
           THEN /\ session_state' = record_user_input(session_state, text)
                /\ pc' = "backend"
                /\ call' = [text |-> text, origin |-> "voice"]
                /\ UNCHANGED <<lastEvent, session_start>>
           ELSE /\ session_state' = [session_state EXCEPT !.audio_buffer = <<>>]
                /\ lastEvent' =
                       Event("stop_recording",
                             IF Truthy(transcribed.response) THEN "empty_input" ELSE "no_text")
                /\ pc' = "idle"
                /\ session_start' = frames
                /\ UNCHANGED call
    /\ UNCHANGED <<playing, frames, runs>>

\* lines 213-224, and line 52 when the turn came from the voice path: the
\* backend call ends
BackendReturns(outcome) ==
    /\ pc = "backend"
    /\ pc' = "idle"
    /\ call' = NoCall
    /\ IF outcome.raised
       THEN /\ lastEvent' =
                   Event(IF call.origin = "voice" THEN "stop_recording" ELSE "send",
                         "backend_raised")
            /\ UNCHANGED session_state
       ELSE LET updated == update_diagnosis(
                               record_system_response(session_state, outcome.response),
                               outcome.response)
            IN  /\ session_state' =
                       IF call.origin = "voice"
                       THEN [updated EXCEPT !.audio_buffer = <<>>]
                       ELSE updated
                /\ lastEvent' =
                       Event(IF call.origin = "voice" THEN "stop_recording" ELSE "send",
                             "answered")
    /\ session_start' = IF call.origin = "voice" THEN frames ELSE session_start
    /\ UNCHANGED <<playing, frames, audio_array, runs>>

NextSuspend ==
    \/ Run
    \/ \E name \in ProfileNames, age \in ProfileAges, gender \in GenderOptions :
          UpdateProfile(name, age, gender)
    \/ \E new_med \in MedNames, med_time \in MedTimes : AddReminder(new_med, med_time)
    \/ \E idx \in 1..MaxRuns : MarkDone(idx)
    \/ \E text \in Texts : SendCall(text)
    \/ StartStream
    \/ StopStream
    \/ AudioCallback
    \/ StopRecordingConcatenate
    \/ \E transcribed \in TranscribeOutcomes(audio_array) : VoiceCall(transcribed)
    \/ \E outcome \in BackendOutcomes(call.text) : BackendReturns(outcome)

SpecSuspend == Init /\ [][NextSuspend]_vars

(***************************************************************************)
(* A turn: a step in which process_user_input runs on `text` and the       *)
(* backend call of line 213 ends as `outcome`, from the send button        *)
(* (line 190) or from the stop-recording handler (line 51).                *)
(***************************************************************************)
TurnStep(text, outcome) ==
    \/ Send(text, outcome)
    \/ StopRecordingDrain(Returned(PyStr(text)), outcome)

NonBlank == {text \in Texts : strip(text) # <<>>}

Blank == {text \in Texts : strip(text) = <<>>}

(***************************************************************************)
(* C1: every turn with non-blank text lengthens the conversation log by    *)
(* exactly 2 when its backend call succeeds and by exactly 1 (the user     *)
(* message only) when its backend call fails.                              *)
(***************************************************************************)
C1_TurnLogGrowth ==
    [][\A text \in NonBlank : \A outcome \in BackendOutcomes(text) :
          TurnStep(text, outcome) =>
              Len(Conversation(session_state')) =
                  Len(Conversation(session_state)) + (IF outcome.raised THEN 1 ELSE 2)]_vars

\* a failed turn has followed a successful one
C1_Witness ==
    /\ lastEvent.outcome = "backend_raised"
    /\ Len(Conversation(session_state)) = 3
    /\ Conversation(session_state)[2].type = "system"

(***************************************************************************)
(* C2: a turn whose text is empty or only whitespace leaves the            *)
(* conversation log, the diagnosis data and the warning as they were.      *)
(***************************************************************************)
C2_BlankTurnChangesNothing ==
    [][\A text \in Blank : \A outcome \in BackendOutcomes(text) :
          TurnStep(text, outcome) =>
              /\ Conversation(session_state') = Conversation(session_state)
              /\ DiagnosisData(session_state') = DiagnosisData(session_state)
              /\ Warning(session_state') = Warning(session_state)
              /\ "warning" \in DOMAIN session_state' <=> "warning" \in DOMAIN session_state]_vars

\* a blank text was sent in a session that holds a turn, a diagnosis and a warning
C2_Witness ==
    /\ lastEvent = Event("send", "empty_input")
    /\ Conversation(session_state) # <<>>
    /\ DiagnosisData(session_state) # EmptyDict
    /\ Truthy(Warning(session_state))

(***************************************************************************)
(* C3: a turn is atomic for readers: whenever a script run (a reader) can  *)
(* see a turn's user message in the log, that turn's system message has    *)
(* been written right after it.                                            *)
(***************************************************************************)
C3_TurnAtomicForReaders ==
    LET log == Conversation(session_state)
    IN  pc = "idle" =>
            \A i \in DOMAIN log :
                log[i].type = "user" => i < Len(log) /\ log[i + 1].type = "system"

(***************************************************************************)
(* C4: when the backend call of a turn fails, the diagnosis data and the   *)
(* warning after the turn are those before it, and the turn's user message *)
(* is the last entry of the log.                                           *)
(***************************************************************************)
C4_FailedTurnKeepsDiagnosis ==
    [][\A text \in NonBlank :
          TurnStep(text, Raised) =>
              /\ DiagnosisData(session_state') = DiagnosisData(session_state)
              /\ Warning(session_state') = Warning(session_state)
              /\ "warning" \in DOMAIN session_state' <=> "warning" \in DOMAIN session_state
              /\ Conversation(session_state') =
                     Append(Conversation(session_state), UserMessage(text))]_vars

\* the backend failed in a session that already held a diagnosis and a warning
C4_Witness ==
    /\ lastEvent.outcome = "backend_raised"
    /\ DiagnosisData(session_state) # EmptyDict
    /\ Truthy(Warning(session_state))

(***************************************************************************)
(* C5: every probability stored in the diagnosis data lies in [0,1]        *)
(* (0..100 in hundredths), whatever the backend returned.                  *)
(***************************************************************************)
C5_ProbabilitiesInRange ==
    LET probabilities == DictGet(DiagnosisData(session_state), "probabilities", EmptyDict)
    IN  \A disease \in DOMAIN probabilities :
            0 <= probabilities[disease] /\ probabilities[disease] <= 100

(***************************************************************************)
(* C6: after every run of the stop-recording handler the audio buffer is   *)
(* empty, whatever it held and whatever transcription and the turn did.    *)
(***************************************************************************)
C6_BufferEmptyAfterDrain ==
    [][((StopRecordingConcatenate /\ pc' = "idle") \/ StopRecordingFinish)
          => AudioBuffer(session_state') = <<>>]_vars

(***************************************************************************)
(* C7: a stop with no chunk collected fails (np.concatenate raises): the   *)
(* handler ends there, changing nothing, and transcription never runs on   *)
(* an empty sample sequence.                                               *)
(***************************************************************************)
C7_EmptyCaptureFails ==
    /\ [][(StopRecordingConcatenate /\ AudioBuffer(session_state) = <<>>) =>
              /\ lastEvent' = Event("stop_recording", "concatenate_raised")
              /\ pc' = "idle"
              /\ session_state' = init_session_state(session_state)]_vars
    /\ [](pc = "transcribe" => audio_array # <<>>)

\* the stop button was clicked on an empty buffer while the stream played
C7_Witness ==
    /\ lastEvent = Event("stop_recording", "concatenate_raised")
    /\ playing
    /\ AudioBuffer(session_state) = <<>>

(***************************************************************************)
(* C8: every reminder in the medication list has a non-empty name (an add  *)
(* with an empty name is rejected).                                        *)
(***************************************************************************)
C8_ReminderNamesNonEmpty ==
    \A i \in DOMAIN Medications(session_state) : Medications(session_state)[i].name # ""

(***************************************************************************)
(* C9: mark-done is idempotent: a click on row idx leaves the row done, a  *)
(* click on a row already done changes nothing in the list, applying it    *)
(* once more to the result gives the result, and no click raises.          *)
(***************************************************************************)
C9_MarkDoneIdempotent ==
    [][\A idx \in 1..MaxRuns :
          MarkDone(idx) =>
              LET before == Medications(session_state)
                  after == Medications(session_state')
              IN  /\ after[idx].status = "done"
                  /\ before[idx].status = "done" => after = before
                  /\ medication_reminder_done(after, idx) = after
                  /\ lastEvent'.outcome \in {"done", "done_again"}]_vars

\* a row already done was marked done again
C9_Witness ==
    /\ lastEvent = Event("mark_done", "done_again")
    /\ \E i \in DOMAIN Medications(session_state) :
          Medications(session_state)[i].status = "done"

(***************************************************************************)
(* C10: the diagnosis data is empty until the first successful turn; each  *)
(* successful turn replaces it by exactly the data section of its          *)
(* response (empty when the response has none), and no other step changes  *)
(* it.                                                                     *)
(***************************************************************************)
C10_DiagnosisIsLatestResponse ==
    /\ DiagnosisData(session_state) = EmptyDict
    /\ [][/\ \A text \in NonBlank : \A outcome \in BackendOutcomes(text) :
                (TurnStep(text, outcome) /\ ~outcome.raised) =>
                    DiagnosisData(session_state') =
                        DictGet(outcome.response, "data", EmptyDict)
          /\ \/ DiagnosisData(session_state') = DiagnosisData(session_state)
             \/ \E text \in NonBlank : \E outcome \in BackendOutcomes(text) :
                    TurnStep(text, outcome) /\ ~outcome.raised]_vars

\* a successful turn whose response had no data section followed a turn that stored data
C10_Witness ==
    /\ lastEvent.outcome = "answered"
    /\ Len(Conversation(session_state)) = 4
    /\ DiagnosisData(session_state) = EmptyDict
    /\ "warning" \in DOMAIN session_state

(***************************************************************************)
(* C11: the warning is overwritten on each turn: after a successful turn   *)
(* answered by the mock backend the warning is the high-risk string        *)
(* exactly when the turn's text contains the word for fever, and is no     *)
(* active warning (None) otherwise, whatever the warning was before.       *)
(***************************************************************************)
C11_WarningOverwritten ==
    [][\A text \in NonBlank :
          TurnStep(text, Returned(get_ai_response(text))) =>
              /\ "warning" \in DOMAIN session_state'
              /\ Truthy(Warning(session_state')) <=> Contains(text, <<"fa", "re">>)
              /\ Warning(session_state') \in
                     {PyNone, PyStr(<<"chixu gaore xu liji jiuyi">>)}]_vars

\* a turn without the word, answered by the mock, came after a turn with it
C11_Witness ==
    LET log == Conversation(session_state)
    IN  /\ lastEvent.outcome = "answered"
        /\ Len(log) = 4
        /\ Contains(log[1].content, <<"fa", "re">>)
        /\ ~Contains(log[3].content, <<"fa", "re">>)
        /\ DiagnosisData(session_state) = MockData
        /\ Warning(session_state) = PyNone

(***************************************************************************)
(* C12: in every reachable state the profile's gender is male or female    *)
(* and its age is an integer from 1 to 100.                                *)
(***************************************************************************)
C12_ProfileInDomain ==
    LET profile == init_session_state(session_state).user_profile
    IN  /\ profile.gender \in {"male", "female"}
        /\ profile.age \in MinAge..MaxAge

C14_BackendFailureRecovered ==
    [][\A text \in NonBlank :
          TurnStep(text, Raised) =>
              LET log == Conversation(session_state')
              IN  /\ lastEvent'.outcome # "backend_raised"
                  /\ log[Len(log)].type = "system"]_vars

(***************************************************************************)
(* C15: the samples a stop-recording click hands to transcription are the  *)
(* concatenation, in arrival order, of exactly the frames delivered in the *)
(* current capture session: none from an earlier session, none missing.    *)
(***************************************************************************)
C15_DrainIsCurrentSession ==
    [][(StopRecordingConcatenate /\ pc' = "transcribe") =>
          audio_array' =
              flatten([n \in 1..(frames - session_start) |->
                          to_ndarray(session_start + n)])]_vars

(***************************************************************************)
(* C16: a reminder is created pending, only a mark-done click changes a    *)
(* status, a done reminder is never pending again, and no step removes or  *)
(* reorders reminders.                                                     *)
(***************************************************************************)
C16_StatusOneWay ==
    [][LET before == Medications(session_state)
           after == Medications(session_state')
       IN  /\ Len(after) >= Len(before)
           /\ \A i \in DOMAIN before :
                 /\ after[i].name = before[i].name
                 /\ after[i].time = before[i].time
                 /\ before[i].status = "done" => after[i].status = "done"
                 /\ after[i].status # before[i].status => MarkDone(i)
           /\ \A i \in DOMAIN after \ DOMAIN before : after[i].status = "pending"]_vars

\* a reminder was added after another one had been marked done
C16_Witness ==
    LET meds == Medications(session_state)
    IN  /\ lastEvent.op = "add_reminder"
        /\ Len(meds) = 2
        /\ meds[1].status = "done"
        /\ meds[2].status = "pending"

(***************************************************************************)
(* C17: the conversation log is append-only: across every step the log     *)
(* stored in the session before is a prefix of the log stored after.       *)
(***************************************************************************)
C17_LogAppendOnly ==
    [][LET stored(ss) == IF "conversation" \in DOMAIN ss
                         THEN ss["conversation"]
                         ELSE <<>>
           before == stored(session_state)
           after == stored(session_state')
       IN  /\ Len(before) <= Len(after)
           /\ SubSeq(after, 1, Len(before)) = before]_vars

\* a script run re-initialised a session that held a whole turn and a failed one
C17_Witness ==
    /\ lastEvent = Event("run", "ok")
    /\ Len(Conversation(session_state)) = 3

(***************************************************************************)
(* C18: no chunk is lost: when the stop-recording handler resets the       *)
(* buffer (line 52), the buffer holds exactly the chunks line 48           *)
(* concatenated, so every chunk audio_callback appended is in a drain.     *)
(***************************************************************************)
C18_NoChunkLost ==
    [][(StopRecordingFinish /\ AudioBuffer(session_state') = <<>>) =>
          flatten(AudioBuffer(session_state)) = audio_array]_vars

(***************************************************************************)
(* C19: init_session_state sets a key only when it is absent: in every     *)
(* reachable state it leaves every key present as it is, adds no warning   *)
(* key, and running it twice gives what running it once gives.             *)
(***************************************************************************)
C19_InitIdempotent ==
    LET once == init_session_state(session_state)
    IN  /\ \A key \in DOMAIN session_state : once[key] = session_state[key]
        /\ DOMAIN once = DOMAIN session_state \cup DOMAIN session_defaults
        /\ init_session_state(once) = once

\* a script run has re-initialised a session that holds a turn, a warning, a
\* reminder and a captured chunk
C19_Witness ==
    /\ Conversation(session_state) # <<>>
    /\ "warning" \in DOMAIN session_state
    /\ DiagnosisData(session_state) # EmptyDict
    /\ AudioBuffer(session_state) # <<>>
    /\ Medications(session_state) # <<>>
    /\ lastEvent = Event("run", "ok")

====
